---- MODULE Spec2Model ----
(***************************************************************************)
(* Model of v2/pkg/output/output.go: the StandardWriter that relays scan   *)
(* findings to a webhook and persists them to file sinks.                  *)
(*                                                                         *)
(* One "main" goroutine constructs the writer (NewStandardWriter) and      *)
(* later calls Close; NumWorkers engine goroutines call Write              *)
(* concurrently.  Every access to shared state (the output mutex, the      *)
(* AstraMeta.Event field, the network, the sinks) is one step.             *)
(***************************************************************************)
EXTENDS Integers, Sequences, FiniteSets

\* ------------------------------------------------------------- bounds
NumWorkers == 2
MaxWrites == 1
MaxCloses == 2

Workers == 1..NumWorkers
\* the goroutines sharing one wrapped event
NumThreads == 3
Threads == 1..NumThreads

\* ------------------------------------------------------------- bytes
ESC == 27
LBracket == 91

\* [0-9;] of decolorizerRegex
IsParamByte(c) == c \in 48..57 \/ c = 59
\* [a-zA-Z] of decolorizerRegex
IsLetterByte(c) == c \in 65..90 \/ c \in 97..122

RECURSIVE ParamEnd(_, _)
\* first index >= i of s that is not a [0-9;] byte (the greedy star)
ParamEnd(s, i) ==
  IF i <= Len(s) /\ IsParamByte(s[i]) THEN ParamEnd(s, i + 1) ELSE i

\* index of the last byte of a match of decolorizerRegex starting at i, 0 if none
MatchEnd(s, i) ==
  IF i + 1 <= Len(s) /\ s[i] = ESC /\ s[i + 1] = LBracket
  THEN LET j == ParamEnd(s, i + 2)
       IN IF j <= Len(s) /\ IsLetterByte(s[j]) THEN j ELSE 0
  ELSE 0

RECURSIVE ReplaceAllFrom(_, _)
\* regexp.ReplaceAll(data, ""): leftmost non-overlapping matches, one pass
ReplaceAllFrom(s, i) ==
  IF i > Len(s) THEN <<>>
  ELSE LET e == MatchEnd(s, i)
       IN IF e > 0 THEN ReplaceAllFrom(s, e + 1)
          ELSE <<s[i]>> \o ReplaceAllFrom(s, i + 1)

Decolorize(data) == ReplaceAllFrom(data, 1)

\* ------------------------------------------------------------- findings
\* the finding written by worker w in its k-th Write call
FindingId(w, k) == (w - 1) * MaxWrites + k

\* formatJSON: a JSON object naming the finding (no raw control bytes)
FormatJSON(f) == <<123, 64 + f, 125>>
\* formatScreen: the finding's name wrapped in colour escape sequences
FormatScreen(f) == <<ESC, LBracket, 51, 49, 109, 64 + f, ESC, LBracket, 48, 109>>

\* what the renderer hands back to Write: a formatting error (JSON only),
\* no bytes, or the rendering
Renderings(isJSON, f) ==
  IF isJSON
  THEN {[err |-> TRUE, data |-> <<>>], [err |-> FALSE, data |-> <<>>],
        [err |-> FALSE, data |-> FormatJSON(f)]}
  ELSE {[err |-> FALSE, data |-> <<>>], [err |-> FALSE, data |-> FormatScreen(f)]}

\* ------------------------------------------------------------- network
\* what http.Client.Do / http.Post hand back:
\*   "ok"    (resp, nil)
\*   "redir" (resp, err): the redirect policy failed, the last response is kept
\*   "fail"  (nil, err):  transport failure, no response object
HTTPOutcomes == {"ok", "redir", "fail"}
HasResponse(o) == o # "fail"
HasError(o) == o # "ok"

\* errors.Wrap(err, msg): nil when err is nil
Wrap(err) == IF err = "nil" THEN "nil" ELSE "wrapped"

\* ------------------------------------------------------------- state
Sinks == {"output", "trace", "error"}

VARIABLES
  mainPc,      \* position of the goroutine that constructs and closes the writer
  action,      \* argument of the running sendStatusChangeRequest call
  sscMeta,     \* tempAstraRequest.Meta.Event of that call (the copy of line 313)
  ctorResult,  \* "none" | "writer" | "error": what NewStandardWriter returned
  closeNo,     \* Close calls started
  closesDone,  \* Close calls returned
  json,        \* w.json
  sink,        \* w.outputFile / w.traceFile / w.errorFile: "nil" | "open" | "closed"
  closeLog,    \* the sink Close invocations, in order: [sink, call]
  mutex,       \* w.mutex: 0 when free, else the worker holding it
  lockLog,     \* the findings whose Write call acquired the mutex, in order
  Event,       \* w.AstraMeta.Event
  statusNet,   \* the requests of sendStatusChangeRequest (PATCH and POST), in order
  alerts,      \* the alert POSTs of Write, in order
  outBytes,    \* contents of the primary output file
  appendLog,   \* the outputFile.Write invocations, in order
  aborted,     \* "no", or why the process terminated
  wpc,         \* per worker: position inside Write
  wcalls,      \* per worker: Write (and WriteFailure) calls started
  wrender,     \* per worker: renderings of its calls that were non-empty
  wdata,       \* per worker: data
  wmeta,       \* per worker: tempMeta.Event (the copy of line 412)
  werr,        \* per worker: err of line 419, "nil" | "err"
  wret         \* per worker: what the last Write call returned

VARIABLES
  matcherStatus,  \* w.matcherStatus
  ctorPaths,      \* the sink paths NewStandardWriter was called with
  ctorEnvMissing, \* the environment inputs that were absent at that call
  failureCalls,   \* the events handed to WriteFailure
  msFalse,        \* the findings built with MatcherStatus false (line 512) and handed to Write
  reqLog,         \* the errors of the Request calls, in order
  traceLog,       \* the traceFile.Write invocations, in order
  errorLog,       \* the errorFile.Write invocations, in order
  fnPc,           \* a function applied on its own: "idle" | "in" | "out"
  fnIn,           \* its argument
  fnOut,          \* its result
  rwWriter,        \* iwe.RWMutex: the thread holding the write lock, 0 if none
  rwReaders,       \* iwe.RWMutex: the threads holding a read lock
  OperatorsResult, \* iwe.OperatorsResult: "nil" or a result
  Results,         \* len(iwe.Results)
  epc,             \* per thread: position inside a method of the wrapped event
  eop,             \* per thread: the method it runs
  earg,            \* per thread: the argument of SetOperatorResult
  eret,            \* per thread: what its query returns
  lastSet          \* the argument of the SetOperatorResult call that returned last

mainVars == <<mainPc, action, sscMeta, ctorResult, closeNo, closesDone>>
cfgVars == <<json, matcherStatus>>
sinkVars == <<sink, closeLog, outBytes, appendLog>>
workerVars == <<wpc, wcalls, wrender, wdata, wmeta, werr, wret>>
netVars == <<statusNet, alerts>>
ctorGhost == <<ctorPaths, ctorEnvMissing>>
failVars == <<failureCalls, msFalse>>
reqVars == <<reqLog, traceLog, errorLog>>
fnVars == <<fnPc, fnIn, fnOut>>
\* the state of what runs independently of the writer's mutex and sinks
iweVars == <<rwWriter, rwReaders, OperatorsResult, Results, epc, eop, earg, eret, lastSet>>
pureVars == <<fnVars, iweVars>>
\* what Write, Close and the constructor leave alone
sideVars == <<reqVars, pureVars>>
opVars == <<failVars, sideVars>>
extVars == <<ctorGhost, opVars>>
\* the writer, its callers and what it has sent and written
writerVars == <<mainVars, cfgVars, sinkVars, workerVars, mutex, lockLog, Event, netVars,
                aborted, ctorGhost, failVars, reqVars>>
vars == <<mainVars, cfgVars, sinkVars, workerVars, mutex, lockLog, Event, netVars, aborted,
          extVars>>

Running == aborted = "no"

\* the writer before NewStandardWriter is called
WriterIdle ==
  /\ mainPc = "start"
  /\ action = "-"
  /\ sscMeta = "-"
  /\ ctorResult = "none"
  /\ closeNo = 0
  /\ closesDone = 0
  /\ json = FALSE
  /\ sink = [s \in Sinks |-> "nil"]
  /\ closeLog = <<>>
  /\ mutex = 0
  /\ lockLog = <<>>
  /\ Event = "-"
  /\ statusNet = <<>>
  /\ alerts = <<>>
  /\ outBytes = <<>>
  /\ appendLog = <<>>
  /\ aborted = "no"
  /\ wpc = [w \in Workers |-> "idle"]
  /\ wcalls = [w \in Workers |-> 0]
  /\ wrender = [w \in Workers |-> 0]
  /\ wdata = [w \in Workers |-> <<>>]
  /\ wmeta = [w \in Workers |-> "-"]
  /\ werr = [w \in Workers |-> "nil"]
  /\ wret = [w \in Workers |-> "-"]
  /\ matcherStatus = FALSE
  /\ ctorPaths = [s \in Sinks |-> "unset"]
  /\ ctorEnvMissing = {}
  /\ failureCalls = {}
  /\ msFalse = {}
  /\ reqLog = <<>>
  /\ traceLog = <<>>
  /\ errorLog = <<>>

\* no function is being applied
FnIdle ==
  /\ fnPc = "idle"
  /\ fnIn = <<>>
  /\ fnOut = <<>>

\* a fresh wrapped event that no thread uses
EventIdle ==
  /\ rwWriter = 0
  /\ rwReaders = {}
  /\ OperatorsResult = "nil"
  /\ epc = [t \in Threads |-> "idle"]
  /\ eop = [t \in Threads |-> "-"]
  /\ earg = [t \in Threads |-> "nil"]
  /\ eret = [t \in Threads |-> FALSE]
  /\ lastSet = "nil"

Init ==
  /\ WriterIdle
  /\ FnIdle
  /\ EventIdle
  /\ Results = 0

\* ------------------------------------------------------------- NewStandardWriter
\* options.Output / TraceLogFile / ErrorLogFile: not set, a path that opens,
\* or a path newFileOutputWriter cannot open
PathKinds == {"unset", "opens", "unopenable"}
\* the six required environment inputs, in the order they are looked up
EnvNames == <<"auditId", "jobId", "scanId", "webhookToken", "webhookUrl", "DAST_API_SVC_NAME">>

\* an option names a path that does not open
OpenFails_Ignored(paths) == FALSE
\* lines 170-192: newFileOutputWriter fails for one of the configured paths
OpenFails(paths) == \E s \in Sinks : paths[s] = "unopenable"

\* lines 162-266.  paths: the three sink paths; folderOK: the store-response
\* directory exists or can be created; envMissing: the set of absent
\* environment inputs; isJSON: options.JSONL; ms: options.MatcherStatus
NewStandardWriter(paths, folderOK, envMissing, isJSON, ms) ==
  /\ Running
  /\ mainPc = "start"
  /\ ctorPaths' = paths
  /\ ctorEnvMissing' = envMissing
  /\ IF OpenFails(paths)
     THEN \* return nil, errors.Wrap(err, ...)
          /\ mainPc' = "returned"
          /\ ctorResult' = "error"
          /\ UNCHANGED <<action, cfgVars, sink, Event, aborted>>
     ELSE IF ~folderOK
     THEN \* gologger.Fatal()
          /\ aborted' = "fatal"
          /\ UNCHANGED <<mainPc, ctorResult, action, cfgVars, sink, Event>>
     ELSE IF envMissing # {}
     THEN \* panic("... env not present")
          /\ aborted' = "env"
          /\ UNCHANGED <<mainPc, ctorResult, action, cfgVars, sink, Event>>
     ELSE \* the writer is built; writer.sendStatusChangeRequest("RUNNING")
          /\ json' = isJSON
          /\ matcherStatus' = ms
          /\ sink' = [s \in Sinks |-> IF paths[s] = "opens" THEN "open" ELSE "nil"]
          /\ Event' = "alert"
          /\ action' = "RUNNING"
          /\ mainPc' = "ssc_patch"
          /\ UNCHANGED <<ctorResult, aborted>>
  /\ UNCHANGED <<sscMeta, closeNo, closesDone, closeLog, outBytes, appendLog,
                 workerVars, mutex, lockLog, netVars, opVars>>

\* ------------------------------------------------------------- sendStatusChangeRequest
\* lines 283-287: the body of the status PATCH
StatusPatchBody(a) ==
  IF a = "RUNNING" THEN [status |-> a, pid |-> "15"] ELSE [status |-> a, pid |-> "-"]
\* lines 306-312
StatusEvent(a) == IF a = "RUNNING" THEN "scan.started" ELSE "scan.complete"
StatusReason(a) ==
  IF a = "RUNNING" THEN "Scan Started successfully" ELSE "Scan Completed successfully"

\* a request of sendStatusChangeRequest: the PATCH carries status and pid, the
\* webhook POST carries meta.Event and the reason; call: 0 for the
\* constructor's call, else the number of the Close call
StatusRequest(method, call, ev, status, pid, reason) ==
  [method |-> method, call |-> call, event |-> ev, status |-> status,
   pid |-> pid, reason |-> reason]

\* lines 294-300: client.Do(PATCH), then resp.Status is read for the log line:
\* with no response object that read is a nil dereference
SSC_patch(o) ==
  /\ Running
  /\ mainPc = "ssc_patch"
  /\ statusNet' = Append(statusNet, StatusRequest("PATCH", closeNo, "-",
                                   StatusPatchBody(action).status,
                                   StatusPatchBody(action).pid, "-"))
  /\ IF HasResponse(o)
     THEN mainPc' = "ssc_event" /\ UNCHANGED aborted
     ELSE aborted' = "nilresp" /\ UNCHANGED mainPc
  /\ UNCHANGED <<action, sscMeta, ctorResult, closeNo, closesDone, cfgVars, sinkVars,
                 workerVars, mutex, Event, alerts>>
  /\ UNCHANGED <<lockLog, extVars>>

\* lines 306-312: w.AstraMeta.Event = ..., with no lock held
SSC_event ==
  /\ Running
  /\ mainPc = "ssc_event"
  /\ Event' = StatusEvent(action)
  /\ mainPc' = "ssc_meta"
  /\ UNCHANGED <<action, sscMeta, ctorResult, closeNo, closesDone, cfgVars, sinkVars,
                 workerVars, mutex, netVars, aborted>>
  /\ UNCHANGED <<lockLog, extVars>>

\* A Go string is a (pointer, length) pair written word by word.  A read of
\* w.AstraMeta.Event that races with an unsynchronised write of another value
\* sees the old value, the new value (by interleaving) or a mix of the two.
WorkerWritesEvent == \E w \in Workers : wpc[w] = "event" /\ Event # "alert"
MainWritesEvent == mainPc = "ssc_event" /\ Event # StatusEvent(action)
EventReadByMain == {Event} \cup (IF WorkerWritesEvent THEN {"torn"} ELSE {})
EventReadByWorker == {Event} \cup (IF MainWritesEvent THEN {"torn"} ELSE {})

\* line 313: tempAstraRequest.Meta = w.AstraMeta
SSC_meta(ev) ==
  /\ Running
  /\ mainPc = "ssc_meta"
  /\ ev \in EventReadByMain
  /\ sscMeta' = ev
  /\ mainPc' = "ssc_post"
  /\ UNCHANGED <<action, ctorResult, closeNo, closesDone, cfgVars, sinkVars,
                 workerVars, mutex, Event, netVars, aborted>>
  /\ UNCHANGED <<lockLog, extVars>>

\* where sendStatusChangeRequest returns to: NewStandardWriter returns the
\* writer (line 271), Close goes on to its sinks (line 483)
SSC_post(o) ==
  /\ Running
  /\ mainPc = "ssc_post"
  /\ statusNet' = Append(statusNet, StatusRequest("POST", closeNo, sscMeta, "-", "-",
                                   StatusReason(action)))
  /\ IF ~HasResponse(o)
     THEN aborted' = "nilresp" /\ UNCHANGED <<mainPc, ctorResult>>
     ELSE /\ UNCHANGED aborted
          /\ IF action = "RUNNING"
             THEN mainPc' = "ready" /\ ctorResult' = "writer"
             ELSE mainPc' = "close_output" /\ UNCHANGED ctorResult
  /\ UNCHANGED <<action, sscMeta, closeNo, closesDone, cfgVars, sinkVars,
                 workerVars, mutex, Event, alerts>>
  /\ UNCHANGED <<lockLog, extVars>>

\* ------------------------------------------------------------- Close
\* a Close that closes the sinks without announcing COMPLETE first
Close_SinksFirst ==
  /\ Running
  /\ mainPc = "ready"
  /\ closeNo < MaxCloses
  /\ closeNo' = closeNo + 1
  /\ action' = "COMPLETE"
  /\ mainPc' = "close_output"
  /\ UNCHANGED <<sscMeta, ctorResult, closesDone, cfgVars, sinkVars, workerVars,
                 mutex, Event, netVars, aborted>>
  /\ UNCHANGED <<lockLog, extVars>>

\* a Close that remembers it already ran and returns at once the second time
Close_Once ==
  /\ Running
  /\ mainPc = "ready"
  /\ closeNo < MaxCloses
  /\ closeNo' = closeNo + 1
  /\ action' = "COMPLETE"
  /\ IF closeNo = 0
     THEN mainPc' = "ssc_patch" /\ UNCHANGED closesDone
     ELSE mainPc' = "ready" /\ closesDone' = closesDone + 1
  /\ UNCHANGED <<sscMeta, ctorResult, cfgVars, sinkVars, workerVars,
                 mutex, Event, netVars, aborted>>
  /\ UNCHANGED <<lockLog, extVars>>

\* lines 478-481: Close takes no lock and consults no "closed" flag
Close ==
  /\ Running
  /\ mainPc = "ready"
  /\ closeNo < MaxCloses
  /\ closeNo' = closeNo + 1
  /\ action' = "COMPLETE"
  /\ mainPc' = "ssc_patch"
  /\ UNCHANGED <<sscMeta, ctorResult, closesDone, cfgVars, sinkVars, workerVars,
                 mutex, Event, netVars, aborted>>
  /\ UNCHANGED <<lockLog, extVars>>

\* the sinks in the order Close visits them
NextSinkPc(s) ==
  CASE s = "output" -> "close_trace"
    [] s = "trace" -> "close_error"
    [] s = "error" -> "ready"

\* lines 483-491: if w.<s>File != nil { w.<s>File.Close() }
Close_sink(s) ==
  /\ Running
  /\ mainPc = "close_" \o s
  /\ IF sink[s] # "nil"
     THEN /\ sink' = [sink EXCEPT ![s] = "closed"]
          /\ closeLog' = Append(closeLog, [sink |-> s, call |-> closeNo])
     ELSE UNCHANGED <<sink, closeLog>>
  /\ mainPc' = NextSinkPc(s)
  /\ closesDone' = IF s = "error" THEN closesDone + 1 ELSE closesDone
  /\ UNCHANGED <<action, sscMeta, ctorResult, closeNo, cfgVars, outBytes, appendLog,
                 workerVars, mutex, Event, netVars, aborted>>
  /\ UNCHANGED <<lockLog, extVars>>

\* ------------------------------------------------------------- Write
\* lines 423-426: the bytes handed to outputFile.Write
PersistData(isJSON, data) == IF ~isJSON THEN Decolorize(data) ELSE data

\* the sink's Write is not atomic: it hands its bytes to the file in two parts
FirstPart(d) == SubSeq(d, 1, (Len(d) + 1) \div 2)
RestPart(d) == SubSeq(d, (Len(d) + 1) \div 2 + 1, Len(d))

\* a Lock that never waits
MutexFree_NoExclusion == TRUE
\* w.mutex.Lock() succeeds only on a free mutex
MutexFree == mutex = 0

\* the alert context left unset
AlertContext_Unset(data) == <<>>
\* the alert context taken after the ANSI stripping
AlertContext_Stripped(data) == Decolorize(data)
\* line 414: tempRequest.Context = data
AlertContext(data) == data

\* lines 368-399: render the finding; a formatting error or an empty rendering
\* returns before the lock is taken
Write_render(w, r) ==
  /\ Running
  /\ ctorResult = "writer"
  /\ wpc[w] = "idle"
  /\ wcalls[w] < MaxWrites
  /\ r \in Renderings(json, FindingId(w, wcalls[w] + 1))
  /\ wcalls' = [wcalls EXCEPT ![w] = @ + 1]
  /\ IF r.err
     THEN /\ wret' = [wret EXCEPT ![w] = Wrap("err")]
          /\ UNCHANGED <<wpc, wdata, wrender>>
     ELSE IF Len(r.data) = 0
     THEN /\ wret' = [wret EXCEPT ![w] = "nil"]
          /\ UNCHANGED <<wpc, wdata, wrender>>
     ELSE /\ wdata' = [wdata EXCEPT ![w] = r.data]
          /\ wrender' = [wrender EXCEPT ![w] = @ + 1]
          /\ wpc' = [wpc EXCEPT ![w] = "lock"]
          /\ wret' = [wret EXCEPT ![w] = "-"]
  /\ UNCHANGED <<mainVars, cfgVars, sinkVars, wmeta, werr, mutex, lockLog, Event, netVars,
                 aborted, ctorGhost, sideVars>>

\* a Write call of the engine
Write(w, r) == Write_render(w, r) /\ UNCHANGED failVars

\* a WriteFailure that does not consult the flag
MatcherStatusOff_Ignored == FALSE
\* line 496: if !w.matcherStatus
MatcherStatusOff == ~matcherStatus

\* lines 495-516: with the flag off return nil at once; else build the finding
\* with MatcherStatus false and return w.Write(data)
WriteFailure(w, r) ==
  /\ Running
  /\ ctorResult = "writer"
  /\ wpc[w] = "idle"
  /\ wcalls[w] < MaxWrites
  /\ failureCalls' = failureCalls \cup {FindingId(w, wcalls[w] + 1)}
  /\ IF MatcherStatusOff
     THEN /\ wcalls' = [wcalls EXCEPT ![w] = @ + 1]
          /\ wret' = [wret EXCEPT ![w] = "nil"]
          /\ UNCHANGED <<mainVars, cfgVars, sinkVars, wpc, wrender, wdata, wmeta, werr,
                         mutex, lockLog, Event, netVars, aborted, ctorGhost, sideVars,
                         msFalse>>
     ELSE /\ msFalse' = msFalse \cup {FindingId(w, wcalls[w] + 1)}
          /\ Write_render(w, r)

\* line 400: w.mutex.Lock()
Write_lock(w) ==
  /\ Running
  /\ wpc[w] = "lock"
  /\ MutexFree
  /\ mutex' = w
  /\ lockLog' = Append(lockLog, FindingId(w, wcalls[w]))
  /\ wpc' = [wpc EXCEPT ![w] = "event"]
  /\ UNCHANGED <<mainVars, cfgVars, sinkVars, wcalls, wrender, wdata, wmeta, werr, wret,
                 Event, netVars, aborted, extVars>>

\* line 410: w.AstraMeta.Event = "alert"
Write_event(w) ==
  /\ Running
  /\ wpc[w] = "event"
  /\ Event' = "alert"
  /\ wpc' = [wpc EXCEPT ![w] = "meta"]
  /\ UNCHANGED <<mainVars, cfgVars, sinkVars, wcalls, wrender, wdata, wmeta, werr, wret,
                 mutex, netVars, aborted>>
  /\ UNCHANGED <<lockLog, extVars>>

\* line 412: tempMeta := w.AstraMeta
Write_meta(w, ev) ==
  /\ Running
  /\ wpc[w] = "meta"
  /\ ev \in EventReadByWorker
  /\ wmeta' = [wmeta EXCEPT ![w] = ev]
  /\ wpc' = [wpc EXCEPT ![w] = "post"]
  /\ UNCHANGED <<mainVars, cfgVars, sinkVars, wcalls, wrender, wdata, werr, wret,
                 mutex, Event, netVars, aborted>>
  /\ UNCHANGED <<lockLog, extVars>>

\* lines 413-423: the alert POST carrying data; resp.Status is then read for
\* the log line (a nil dereference when there is no response object: the
\* deferred Unlock runs and the panic ends the process); with no output file
\* Write returns nil
Write_post(w, o) ==
  /\ Running
  /\ wpc[w] = "post"
  /\ alerts' = Append(alerts, [fid |-> FindingId(w, wcalls[w]), event |-> wmeta[w],
                               ctx |-> AlertContext(wdata[w])])
  /\ IF ~HasResponse(o)
     THEN /\ mutex' = 0
          /\ aborted' = "nilresp"
          /\ wpc' = [wpc EXCEPT ![w] = "panicked"]
          /\ UNCHANGED <<wret, wdata, wmeta, werr>>
     ELSE IF sink["output"] = "nil"
     THEN /\ mutex' = 0
          /\ wpc' = [wpc EXCEPT ![w] = "idle"]
          /\ wret' = [wret EXCEPT ![w] = "nil"]
          /\ wdata' = [wdata EXCEPT ![w] = <<>>]
          /\ wmeta' = [wmeta EXCEPT ![w] = "-"]
          /\ UNCHANGED <<aborted, werr>>
     ELSE /\ wpc' = [wpc EXCEPT ![w] = "append"]
          /\ werr' = [werr EXCEPT ![w] = IF HasError(o) THEN "err" ELSE "nil"]
          /\ UNCHANGED <<mutex, aborted, wret, wdata, wmeta>>
  /\ UNCHANGED <<mainVars, cfgVars, sinkVars, wcalls, wrender, Event, statusNet>>
  /\ UNCHANGED <<lockLog, extVars>>

\* line 428: what Write returns when outputFile.Write failed
WriteFailureReturn(postErr) == Wrap(postErr)

\* lines 424-429: outputFile.Write(data) begins; ioOK: the device accepts the
\* bytes.  A closed sink refuses them.
Write_append(w, ioOK) ==
  /\ Running
  /\ wpc[w] = "append"
  /\ LET d == PersistData(json, wdata[w])
         f == FindingId(w, wcalls[w])
     IN IF sink["output"] = "open" /\ ioOK
        THEN /\ outBytes' = outBytes \o FirstPart(d)
             /\ appendLog' = Append(appendLog, [fid |-> f, data |-> d, state |-> "partial"])
             /\ wpc' = [wpc EXCEPT ![w] = "append2"]
             /\ UNCHANGED <<mutex, wret, wdata, wmeta, werr>>
        ELSE /\ appendLog' = Append(appendLog, [fid |-> f, data |-> d, state |-> "failed"])
             /\ wret' = [wret EXCEPT ![w] = WriteFailureReturn(werr[w])]
             /\ mutex' = 0
             /\ wpc' = [wpc EXCEPT ![w] = "idle"]
             /\ wdata' = [wdata EXCEPT ![w] = <<>>]
             /\ wmeta' = [wmeta EXCEPT ![w] = "-"]
             /\ werr' = [werr EXCEPT ![w] = "nil"]
             /\ UNCHANGED outBytes
  /\ UNCHANGED <<mainVars, cfgVars, sink, closeLog, wcalls, wrender, Event, netVars, aborted>>
  /\ UNCHANGED <<lockLog, extVars>>

\* the entry of finding f in the append log, set to state st
SetAppendState(f, st) ==
  [i \in DOMAIN appendLog |->
     IF appendLog[i].fid = f THEN [appendLog[i] EXCEPT !.state = st] ELSE appendLog[i]]

\* lines 427-431: outputFile.Write(data) ends and Write returns (deferred Unlock)
Write_append2(w) ==
  /\ Running
  /\ wpc[w] = "append2"
  /\ LET d == PersistData(json, wdata[w])
         f == FindingId(w, wcalls[w])
     IN IF sink["output"] = "open"
        THEN /\ outBytes' = outBytes \o RestPart(d)
             /\ appendLog' = SetAppendState(f, "done")
             /\ wret' = [wret EXCEPT ![w] = "nil"]
        ELSE /\ appendLog' = SetAppendState(f, "failed")
             /\ wret' = [wret EXCEPT ![w] = WriteFailureReturn(werr[w])]
             /\ UNCHANGED outBytes
  /\ mutex' = 0
  /\ wpc' = [wpc EXCEPT ![w] = "idle"]
  /\ wdata' = [wdata EXCEPT ![w] = <<>>]
  /\ wmeta' = [wmeta EXCEPT ![w] = "-"]
  /\ werr' = [werr EXCEPT ![w] = "nil"]
  /\ UNCHANGED <<mainVars, cfgVars, sink, closeLog, wcalls, wrender, Event, netVars, aborted>>
  /\ UNCHANGED <<lockLog, extVars>>

\* ------------------------------------------------------------- specification
Next ==
  \/ \E paths \in [Sinks -> PathKinds], folderOK \in BOOLEAN,
        envMissing \in {{}} \cup {{EnvNames[i]} : i \in DOMAIN EnvNames}, isJSON \in BOOLEAN :
       \* WriteFailure is not called here, so options.MatcherStatus stays off
       NewStandardWriter(paths, folderOK, envMissing, isJSON, FALSE)
  \/ \E o \in HTTPOutcomes : SSC_patch(o)
  \/ SSC_event
  \/ \E ev \in EventReadByMain : SSC_meta(ev)
  \/ \E o \in HTTPOutcomes : SSC_post(o)
  \/ Close
  \/ \E s \in Sinks : Close_sink(s)
  \/ \E w \in Workers :
       \/ \E r \in Renderings(json, FindingId(w, wcalls[w] + 1)) : Write(w, r)
       \/ Write_lock(w)
       \/ Write_event(w)
       \/ \E ev \in EventReadByWorker : Write_meta(w, ev)
       \/ \E o \in HTTPOutcomes : Write_post(w, o)
       \/ \E ioOK \in BOOLEAN : Write_append(w, ioOK)
       \/ Write_append2(w)

Spec == Init /\ [][Next]_vars

\* the steps of sendStatusChangeRequest
SSC ==
  \/ \E o \in HTTPOutcomes : SSC_patch(o)
  \/ SSC_event
  \/ \E ev \in EventReadByMain : SSC_meta(ev)
  \/ \E o \in HTTPOutcomes : SSC_post(o)

\* the steps of a Write call once the finding is rendered
WriteSteps(w) ==
  \/ Write_lock(w)
  \/ Write_event(w)
  \/ \E ev \in EventReadByWorker : Write_meta(w, ev)
  \/ \E o \in HTTPOutcomes : Write_post(w, o)
  \/ \E ioOK \in BOOLEAN : Write_append(w, ioOK)
  \/ Write_append2(w)

\* the writer used by goroutines that report findings with Write and failed
\* matches with WriteFailure, under either setting of options.MatcherStatus
NextFailure ==
  \/ \E paths \in [Sinks -> PathKinds], folderOK \in BOOLEAN,
        envMissing \in {{}} \cup {{EnvNames[i]} : i \in DOMAIN EnvNames},
        isJSON \in BOOLEAN, ms \in BOOLEAN :
       NewStandardWriter(paths, folderOK, envMissing, isJSON, ms)
  \/ SSC
  \/ \E w \in Workers :
       \/ \E r \in Renderings(json, FindingId(w, wcalls[w] + 1)) : Write(w, r)
       \/ \E r \in Renderings(json, FindingId(w, wcalls[w] + 1)) : WriteFailure(w, r)
       \/ WriteSteps(w)

SpecFailure == Init /\ [][NextFailure]_vars

\* ------------------------------------------------------------- fair scheduling
\* the writer used by goroutines that call Write, before any Close
NextWrite ==
  \/ \E paths \in [Sinks -> PathKinds], folderOK \in BOOLEAN,
        envMissing \in {{}} \cup {{EnvNames[i]} : i \in DOMAIN EnvNames}, isJSON \in BOOLEAN :
       NewStandardWriter(paths, folderOK, envMissing, isJSON, FALSE)
  \/ SSC
  \/ \E w \in Workers :
       \/ \E r \in Renderings(json, FindingId(w, wcalls[w] + 1)) : Write(w, r)
       \/ WriteSteps(w)

\* every webhook call and file write returns and the scheduler lets every
\* goroutine run (weak fairness of each caller's steps); sync.Mutex hands the
\* lock to a goroutine that keeps waiting for it (starvation mode), which is
\* strong fairness of the acquisition
FairWrite ==
  \A w \in Workers : WF_vars(WriteSteps(w)) /\ SF_vars(Write_lock(w))

SpecFairWrite == Init /\ [][NextWrite]_vars /\ FairWrite

\* ------------------------------------------------------------- Request
MaxRequests == 2

\* an error value is the chain of its messages, from the outermost wrapper to
\* the root cause; the empty chain is nil
ErrorValues == {<<>>, <<"timeout">>, <<"could not send", "timeout">>}

\* utils.UnwrapError: the innermost error of the chain
UnwrapError(e) == <<e[Len(e)]>>

\* err.Error(): a wrapper prefixes its message to that of the error it wraps
RECURSIVE ErrorMessage(_)
ErrorMessage(e) ==
  IF Len(e) = 1 THEN e[1] ELSE e[1] \o ": " \o ErrorMessage(Tail(e))

\* lines 447-458: the JSONLogRequest of a call; call stands for the template,
\* input and type of that call
RequestRecord(call, requestErr) ==
  [call |-> call,
   error |-> IF requestErr # <<>> THEN ErrorMessage(UnwrapError(requestErr)) ELSE "none"]

\* an error sink that gets every record
WritesErrorSink_Always(requestErr) == sink["error"] # "nil"
\* line 467: if requestErr != nil && w.errorFile != nil
WritesErrorSink(requestErr) == requestErr # <<>> /\ sink["error"] # "nil"

\* lines 443-470; no lock is taken
Request(requestErr) ==
  /\ Running
  /\ ctorResult = "writer"
  /\ Len(reqLog) < MaxRequests
  /\ reqLog' = Append(reqLog, requestErr)
  /\ IF sink["trace"] = "nil" /\ sink["error"] = "nil"
     THEN UNCHANGED <<traceLog, errorLog>>
     ELSE LET rec == RequestRecord(Len(reqLog) + 1, requestErr)
          IN /\ traceLog' = IF sink["trace"] # "nil" THEN Append(traceLog, rec) ELSE traceLog
             /\ errorLog' = IF WritesErrorSink(requestErr)
                            THEN Append(errorLog, rec) ELSE errorLog
  /\ UNCHANGED <<mainVars, cfgVars, sinkVars, workerVars, mutex, lockLog, Event, netVars,
                 aborted, ctorGhost, failVars, pureVars>>

\* the writer used for request logging only, up to and after Close
NextRequest ==
  \/ \E paths \in [Sinks -> PathKinds], folderOK \in BOOLEAN,
        envMissing \in {{}} \cup {{EnvNames[i]} : i \in DOMAIN EnvNames}, isJSON \in BOOLEAN :
       NewStandardWriter(paths, folderOK, envMissing, isJSON, FALSE)
  \/ SSC
  \/ Close
  \/ \E s \in Sinks : Close_sink(s)
  \/ \E e \in ErrorValues : Request(e)

SpecRequest == Init /\ [][NextRequest]_vars

\* ------------------------------------------------------------- sanitizeFileName
\* a file name is the sequence of its characters
MaxTokens == 4

\* strings.ReplaceAll: the non-overlapping occurrences of old, left to right,
\* in one pass
RECURSIVE ReplaceAll(_, _, _)
ReplaceAll(str, old, new) ==
  IF Len(str) < Len(old) THEN str
  ELSE IF SubSeq(str, 1, Len(old)) = old
  THEN new \o ReplaceAll(SubSeq(str, Len(old) + 1, Len(str)), old, new)
  ELSE <<Head(str)>> \o ReplaceAll(Tail(str), old, new)

\* strings.TrimPrefix: one leading occurrence of prefix is removed
TrimPrefix(str, prefix) ==
  IF Len(str) >= Len(prefix) /\ SubSeq(str, 1, Len(prefix)) = prefix
  THEN SubSeq(str, Len(prefix) + 1, Len(str)) ELSE str

\* lines 517-529; isWindows: osutils.IsWindows()
sanitizeFileName(fileName, isWindows) ==
  LET f1 == ReplaceAll(fileName, <<"h", "t", "t", "p", ":">>, <<>>)
      f2 == ReplaceAll(f1, <<"h", "t", "t", "p", "s", ":">>, <<>>)
      f3 == ReplaceAll(f2, <<"/">>, <<"_">>)
      f4 == ReplaceAll(f3, <<"\\">>, <<"_">>)
      f5 == ReplaceAll(f4, <<"-">>, <<"_">>)
      f6 == ReplaceAll(f5, <<".">>, <<"_">>)
      f7 == IF isWindows THEN ReplaceAll(f6, <<":">>, <<"_">>) ELSE f6
  IN TrimPrefix(f7, <<"_", "_">>)

\* the pieces file names are put together from
NameTokens ==
  {<<"h", "t", "t", "p", ":">>, <<"h", "t", "t", "p", "s", ":">>, <<"h", "t">>,
   <<"t", "p", ":">>, <<"/">>, <<"\\">>, <<"-">>, <<".">>, <<"_">>, <<"a">>}

RECURSIVE Flatten(_)
Flatten(ts) == IF ts = <<>> THEN <<>> ELSE Head(ts) \o Flatten(Tail(ts))

\* every name of at most MaxTokens pieces
FileNames == UNION {{Flatten(ts) : ts \in [1..n -> NameTokens]} : n \in 0..MaxTokens}

InitSanitize ==
  /\ WriterIdle
  /\ EventIdle
  /\ Results = 0
  /\ fnPc = "in"
  /\ fnIn \in [name : FileNames, windows : BOOLEAN]
  /\ fnOut = <<>>

\* a call of sanitizeFileName
Sanitize ==
  /\ fnPc = "in"
  /\ fnOut' = sanitizeFileName(fnIn.name, fnIn.windows)
  /\ fnPc' = "out"
  /\ UNCHANGED <<fnIn, writerVars, iweVars>>

SpecSanitize == InitSanitize /\ [][Sanitize]_vars

\* ------------------------------------------------------------- extractResponseData
\* a raw response is the sequence of its characters
MaxHeaders == 2

Digits == <<"0", "1", "2", "3", "4", "5", "6", "7", "8", "9">>
UpperCase == <<"A", "B", "C", "D", "E", "F", "G", "H", "I", "J", "K", "L", "M",
               "N", "O", "P", "Q", "R", "S", "T", "U", "V", "W", "X", "Y", "Z">>
LowerCase == <<"a", "b", "c", "d", "e", "f", "g", "h", "i", "j", "k", "l", "m",
               "n", "o", "p", "q", "r", "s", "t", "u", "v", "w", "x", "y", "z">>
Range(f) == {f[i] : i \in DOMAIN f}

\* the character classes of the two patterns: \d, [\w-], \s, [\n\r], [^\n\r]
DigitChars == Range(Digits)
NameChars == DigitChars \cup Range(UpperCase) \cup Range(LowerCase) \cup {"_", "-"}
SpaceChars == {" ", "\t", "\n", "\f", "\r"}
NewlineChars == {"\n", "\r"}
NonNewlineChars == (NameChars \cup SpaceChars \cup {":", "/", ".", "<", ">"}) \ NewlineChars

\* strings.ToLower
ToLowerChar(c) ==
  IF \E i \in DOMAIN UpperCase : UpperCase[i] = c
  THEN LowerCase[CHOOSE i \in DOMAIN UpperCase : UpperCase[i] = c] ELSE c
ToLower(str) == [i \in DOMAIN str |-> ToLowerChar(str[i])]

\* strconv.Atoi of a run of digits
RECURSIVE Atoi(_)
Atoi(ds) ==
  IF ds = <<>> THEN 0
  ELSE 10 * Atoi(SubSeq(ds, 1, Len(ds) - 1))
       + (CHOOSE i \in DOMAIN Digits : Digits[i] = ds[Len(ds)]) - 1

\* a greedy cls*: the first position from i on whose character is not in cls
RECURSIVE RunEnd(_, _, _)
RunEnd(str, i, cls) ==
  IF i <= Len(str) /\ str[i] \in cls THEN RunEnd(str, i + 1, cls) ELSE i

\* \s*([^\n\r]*)[\n\r]+ from p on, with \s* ending at q: the longest \s* is
\* tried first and gives characters back until a line break follows the value
RECURSIVE ValueMatch(_, _, _)
ValueMatch(str, p, q) ==
  LET r == RunEnd(str, q, NonNewlineChars)
  IN IF r <= Len(str) /\ str[r] \in NewlineChars
     THEN [ok |-> TRUE, value |-> SubSeq(str, q, r - 1),
           end |-> RunEnd(str, r, NewlineChars)]
     ELSE IF q = p THEN [ok |-> FALSE, value |-> <<>>, end |-> p]
     ELSE ValueMatch(str, p, q - 1)

\* line 343: (?m)^([\w-]+):\s*([^\n\r]*)[\n\r]+ matched at position i
HeaderMatch(str, i) ==
  LET n == RunEnd(str, i, NameChars)
  IN IF (i = 1 \/ str[i - 1] = "\n") /\ n > i /\ n <= Len(str) /\ str[n] = ":"
     THEN LET m == ValueMatch(str, n + 1, RunEnd(str, n + 1, SpaceChars))
          IN [ok |-> m.ok, name |-> SubSeq(str, i, n - 1), value |-> m.value, end |-> m.end]
     ELSE [ok |-> FALSE, name |-> <<>>, value |-> <<>>, end |-> i]

\* headers[name] = value
SetHeader(headers, name, value) ==
  [x \in DOMAIN headers \cup {name} |-> IF x = name THEN value ELSE headers[x]]

\* lines 346-353: FindAllStringSubmatch, left to right without overlap, each
\* match stored under its lower-cased name
RECURSIVE FindAllHeaders(_, _, _)
FindAllHeaders(str, i, headers) ==
  IF i > Len(str) THEN headers
  ELSE LET m == HeaderMatch(str, i)
       IN IF m.ok
          THEN FindAllHeaders(str, m.end, SetHeader(headers, ToLower(m.name), m.value))
          ELSE FindAllHeaders(str, i + 1, headers)

\* lines 356-363: ^HTTP/(\d+\.\d+)\s+(\d+)\s+.* at the start of the text
StatusMatch(str) ==
  LET lit == <<"H", "T", "T", "P", "/">>
      a == Len(lit) + 1
      b == RunEnd(str, a, DigitChars)
      c == RunEnd(str, b + 1, DigitChars)
      d == RunEnd(str, c, SpaceChars)
      e == RunEnd(str, d, DigitChars)
      f == RunEnd(str, e, SpaceChars)
  IN IF /\ Len(str) >= Len(lit) /\ SubSeq(str, 1, Len(lit)) = lit
        /\ b > a /\ b <= Len(str) /\ str[b] = "."
        /\ c > b + 1 /\ d > c /\ e > d /\ f > e
     THEN [version |-> SubSeq(str, a, c - 1), code |-> Atoi(SubSeq(str, d, e - 1))]
     ELSE [version |-> <<>>, code |-> 0]

\* lines 341-365
extractResponseData(rawResponse) ==
  [version |-> StatusMatch(rawResponse).version,
   code |-> StatusMatch(rawResponse).code,
   headers |-> FindAllHeaders(rawResponse, 1, <<>>)]

\* the responses given to it: a status line HTTP/<v> <code> <reason>, then up
\* to MaxHeaders lines name: value, a blank after the colon or none, lines
\* ended by CR LF or LF, the last line with or without its line break
StatusLines ==
  {[version |-> <<"1", ".", "1">>, code |-> <<"2", "0", "0">>, reason |-> <<"O", "K">>],
   [version |-> <<"2", ".", "0">>, code |-> <<"4", "0", "4">>, reason |-> <<"N", "o">>]}
HeaderLines ==
  [name : {<<"A">>, <<"a">>, <<"X", "-", "b">>}, sep : {<<":">>, <<":", " ">>},
   value : {<<>>, <<"v">>, <<"w", " ", "z">>}]
LineBreaks == {<<"\r", "\n">>, <<"\n">>}
Responses ==
  [status : StatusLines,
   lines : UNION {[1..n -> HeaderLines] : n \in 0..MaxHeaders},
   eol : LineBreaks,
   lastEol : BOOLEAN]

RECURSIVE HeaderText(_, _)
HeaderText(lines, eol) ==
  IF lines = <<>> THEN <<>>
  ELSE eol \o Head(lines).name \o Head(lines).sep \o Head(lines).value
       \o HeaderText(Tail(lines), eol)

\* the text of response r
RawResponse(r) ==
  <<"H", "T", "T", "P", "/">> \o r.status.version \o <<" ">> \o r.status.code \o <<" ">>
  \o r.status.reason \o HeaderText(r.lines, r.eol) \o (IF r.lastEol THEN r.eol ELSE <<>>)

InitExtract ==
  /\ WriterIdle
  /\ EventIdle
  /\ Results = 0
  /\ fnPc = "in"
  /\ fnIn \in Responses
  /\ fnOut = <<>>

\* a call of extractResponseData
Extract ==
  /\ fnPc = "in"
  /\ fnOut' = extractResponseData(RawResponse(fnIn))
  /\ fnPc' = "out"
  /\ UNCHANGED <<fnIn, writerVars, iweVars>>

SpecExtract == InitExtract /\ [][Extract]_vars

\* ------------------------------------------------------------- persisted bytes
MaxBytes == 6

\* the bytes renderings are made of here: ESC, '[', '1', ';', 'm' and 'x'
RenderBytes == {ESC, LBracket, 49, 59, 109, 120}
\* every rendering of at most MaxBytes bytes
RenderedData == UNION {[1..n -> RenderBytes] : n \in 0..MaxBytes}

InitPersist ==
  /\ WriterIdle
  /\ EventIdle
  /\ Results = 0
  /\ fnPc = "in"
  /\ fnIn \in [json : BOOLEAN, data : RenderedData]
  /\ fnOut = <<>>

\* lines 423-427 of Write: the bytes handed to outputFile.Write
Persist ==
  /\ fnPc = "in"
  /\ fnOut' = PersistData(fnIn.json, fnIn.data)
  /\ fnPc' = "out"
  /\ UNCHANGED <<fnIn, writerVars, iweVars>>

SpecPersist == InitPersist /\ [][Persist]_vars

\* ------------------------------------------------------------- InternalWrappedEvent
Queries == {"HasOperatorResult", "HasResults"}
Methods == Queries \cup {"SetOperatorResult"}
\* *operators.Result values
ResultValues == {"nil", "r1", "r2"}

\* a write lock granted while read locks are held
CanLock_IgnoresReaders == rwWriter = 0
\* sync.RWMutex: Lock waits for the writer and for every reader to be gone
CanLock == rwWriter = 0 /\ rwReaders = {}
\* sync.RWMutex: RLock waits only for the writer to be gone
CanRLock == rwWriter = 0

\* thread t calls method op of the wrapped event (r: the argument of
\* SetOperatorResult)
IWE_call(t, op, r) ==
  /\ epc[t] = "idle"
  /\ epc' = [epc EXCEPT ![t] = "lock"]
  /\ eop' = [eop EXCEPT ![t] = op]
  /\ earg' = [earg EXCEPT ![t] = IF op = "SetOperatorResult" THEN r ELSE "nil"]
  /\ UNCHANGED <<rwWriter, rwReaders, OperatorsResult, Results, eret, lastSet,
                 writerVars, fnVars>>

\* lines 91, 98, 105: iwe.RLock() in the queries, iwe.Lock() in SetOperatorResult
IWE_lock(t) ==
  /\ epc[t] = "lock"
  /\ IF eop[t] \in Queries
     THEN CanRLock /\ rwReaders' = rwReaders \cup {t} /\ UNCHANGED rwWriter
     ELSE CanLock /\ rwWriter' = t /\ UNCHANGED rwReaders
  /\ epc' = [epc EXCEPT ![t] = "access"]
  /\ UNCHANGED <<OperatorsResult, Results, eop, earg, eret, lastSet, writerVars, fnVars>>

\* lines 94, 101, 108: the read or the assignment of the field
IWE_access(t) ==
  /\ epc[t] = "access"
  /\ CASE eop[t] = "HasOperatorResult" ->
            eret' = [eret EXCEPT ![t] = OperatorsResult # "nil"] /\ UNCHANGED OperatorsResult
       [] eop[t] = "HasResults" ->
            eret' = [eret EXCEPT ![t] = Results > 0] /\ UNCHANGED OperatorsResult
       [] eop[t] = "SetOperatorResult" ->
            OperatorsResult' = earg[t] /\ UNCHANGED eret
  /\ epc' = [epc EXCEPT ![t] = "unlock"]
  /\ UNCHANGED <<rwWriter, rwReaders, Results, eop, earg, lastSet, writerVars, fnVars>>

\* the deferred RUnlock / Unlock; the method returns
IWE_unlock(t) ==
  /\ epc[t] = "unlock"
  /\ IF eop[t] \in Queries
     THEN rwReaders' = rwReaders \ {t} /\ UNCHANGED <<rwWriter, lastSet>>
     ELSE rwWriter' = 0 /\ lastSet' = earg[t] /\ UNCHANGED rwReaders
  /\ epc' = [epc EXCEPT ![t] = "idle"]
  /\ eop' = [eop EXCEPT ![t] = "-"]
  /\ earg' = [earg EXCEPT ![t] = "nil"]
  /\ UNCHANGED <<OperatorsResult, Results, eret, writerVars, fnVars>>

InitEvent ==
  /\ WriterIdle
  /\ FnIdle
  /\ EventIdle
  /\ Results \in {0, 1}

NextEvent ==
  \E t \in Threads :
    \/ \E op \in Methods, r \in ResultValues : IWE_call(t, op, r)
    \/ IWE_lock(t)
    \/ IWE_access(t)
    \/ IWE_unlock(t)

SpecEvent == InitEvent /\ [][NextEvent]_vars

\* ------------------------------------------------------------- properties
\* worker w is inside the notify+persist sequence of lines 401-431
InCS(w) == wpc[w] \in {"event", "meta", "post", "append", "append2"}

RECURSIVE SumTo(_, _)
SumTo(f, n) == IF n = 0 THEN 0 ELSE f[n] + SumTo(f, n - 1)
\* Write calls made so far, and those among them whose rendering was non-empty
TotalCalls == SumTo(wcalls, NumWorkers)
TotalRendered == SumTo(wrender, NumWorkers)
\* no Write call is in progress
AllReturned == \A w \in Workers : wpc[w] = "idle"

\* the bytes d occur as one contiguous block of the primary output file
Contiguous(d) ==
  \E i \in 0..Len(outBytes) :
    /\ i + Len(d) <= Len(outBytes)
    /\ SubSeq(outBytes, i + 1, i + Len(d)) = d

AlertIndex(f) == CHOOSE j \in DOMAIN alerts : alerts[j].fid = f

\* C1: at most one Write call at a time is inside the notify+persist
\* sequence, and it is the holder of the mutex; while a call's append is in
\* progress its alert is the last one sent and its append the last one begun,
\* so nobody sent an alert or appended bytes in between.
C1_MutualExclusion ==
  /\ \A w1, w2 \in Workers : InCS(w1) /\ InCS(w2) => w1 = w2
  /\ \A w \in Workers : InCS(w) => mutex = w
  /\ \A i \in DOMAIN appendLog :
       appendLog[i].state = "partial" =>
         /\ i = Len(appendLog)
         /\ alerts[Len(alerts)].fid = appendLog[i].fid

\* one call is in the middle of its append while another waits for the lock
C1_Witness ==
  \E w1, w2 \in Workers : wpc[w1] = "append2" /\ wpc[w2] = "lock"

\* C2 (as stated): with an output file configured, once all N concurrent
\* Write calls have returned there were exactly N alert POSTs and exactly N
\* appends, each finding's bytes contiguous in the file.
C2_ExactlyNAlertsAndAppends ==
  (AllReturned /\ sink["output"] # "nil") =>
    /\ Len(alerts) = TotalCalls
    /\ Len(appendLog) = TotalCalls
    /\ \A i \in DOMAIN appendLog :
         appendLog[i].state = "done" => Contiguous(appendLog[i].data)

\* C2 (amended): with an output file configured, once all Write calls have
\* returned there were exactly as many alert POSTs and as many appends as
\* there were calls whose rendering was non-empty (a call whose formatting
\* failed or whose rendering was empty sends and appends nothing), and the
\* bytes of every finding whose append succeeded are contiguous in the file.
C2_AlertsAndAppendsPerRendering ==
  (AllReturned /\ sink["output"] # "nil") =>
    /\ Len(alerts) = TotalRendered
    /\ Len(appendLog) = TotalRendered
    /\ \A i \in DOMAIN appendLog :
         appendLog[i].state = "done" => Contiguous(appendLog[i].data)

\* every worker has called Write, all calls rendered something and returned,
\* and every finding is in the file
C2_Witness ==
  /\ AllReturned
  /\ sink["output"] = "open"
  /\ TotalCalls = NumWorkers * MaxWrites
  /\ TotalRendered = TotalCalls
  /\ Len(appendLog) = TotalCalls
  /\ \A i \in DOMAIN appendLog : appendLog[i].state = "done"

\* C3: the findings reach the primary output file in the order in which
\* their alerts reached the webhook, which is the order of lock acquisition:
\* the j-th alert is that of the j-th call to take the lock, every appended
\* finding was alerted, and two appended findings are in the same relative
\* order in both sequences.
C3_SameOrder ==
  /\ Len(alerts) <= Len(lockLog)
  /\ \A j \in DOMAIN alerts : alerts[j].fid = lockLog[j]
  /\ \A i \in DOMAIN appendLog : \E j \in DOMAIN alerts : alerts[j].fid = appendLog[i].fid
  /\ \A i1, i2 \in DOMAIN appendLog :
       i1 < i2 => AlertIndex(appendLog[i1].fid) < AlertIndex(appendLog[i2].fid)

\* two findings were alerted and appended, the second worker's first
C3_Witness ==
  /\ Len(appendLog) >= 2
  /\ appendLog[1].state = "done" /\ appendLog[2].state = "done"
  /\ appendLog[1].fid = FindingId(2, 1)
  /\ alerts[1].fid = FindingId(2, 1)

\* the last call of worker w was one whose append to the output file failed
AppendFailed(w) ==
  /\ wpc[w] = "idle"
  /\ wcalls[w] >= 1
  /\ \E i \in DOMAIN appendLog :
       appendLog[i].fid = FindingId(w, wcalls[w]) /\ appendLog[i].state = "failed"

\* C4: a Write call whose append to the primary output file failed returned
\* a non-nil error, and its alert had been sent.
C4_AppendFailureReturnsError ==
  \A w \in Workers :
    AppendFailed(w) =>
      /\ wret[w] # "nil"
      /\ \E j \in DOMAIN alerts : alerts[j].fid = FindingId(w, wcalls[w])

\* C5: an outbound call that yields no response object does not end the
\* process.
C5_NetworkFailureNotSurfaced == aborted # "nilresp"

\* the event a state-change announcement of call number c is meant to carry
\* (0: the constructor's RUNNING, otherwise a Close's COMPLETE)
ExpectedStatusEvent(c) == IF c = 0 THEN "scan.started" ELSE "scan.complete"

\* C6: every alert sent by Write carries the event "alert" and every
\* state-change webhook payload carries the event of its own state.
C6_EventMatchesSender ==
  /\ \A j \in DOMAIN alerts : alerts[j].event = "alert"
  /\ \A i \in DOMAIN statusNet :
       statusNet[i].method = "POST" =>
         statusNet[i].event = ExpectedStatusEvent(statusNet[i].call)

\* C7: in JSON mode every append to the primary output file was preceded by
\* the alert of the same finding carrying exactly the finding's JSON, the
\* bytes handed to the file are those same bytes, and once the append is
\* done they stand in the file verbatim.
C7_AlertThenVerbatimAppend ==
  json =>
    \A i \in DOMAIN appendLog :
      /\ \E j \in DOMAIN alerts :
           /\ alerts[j].fid = appendLog[i].fid
           /\ alerts[j].ctx = FormatJSON(appendLog[i].fid)
           /\ alerts[j].ctx = appendLog[i].data
      /\ appendLog[i].state = "done" => Contiguous(FormatJSON(appendLog[i].fid))

\* a JSON finding has been alerted and appended
C7_Witness ==
  /\ json
  /\ \E i \in DOMAIN appendLog : appendLog[i].state = "done"

\* the requests of the announcement of call c (0: construction)
AnnouncedPatch(c, st) ==
  \E i \in DOMAIN statusNet :
    statusNet[i].method = "PATCH" /\ statusNet[i].call = c /\ statusNet[i].status = st
AnnouncedPost(c) ==
  \E i \in DOMAIN statusNet : statusNet[i].method = "POST" /\ statusNet[i].call = c
\* how often Close call c invoked the Close method of sink s
SinkCloses(s, c) ==
  Cardinality({i \in DOMAIN closeLog : closeLog[i].sink = s /\ closeLog[i].call = c})

\* C8: a writer is returned (and so an alert sent) only after the RUNNING
\* announcement, which opens the request log; a Close call closes a sink only
\* after its COMPLETE announcement; and a Close call that has returned has
\* invoked Close once on each configured sink and on no other.
C8_AnnounceBeforeReturnAndClose ==
  /\ (ctorResult = "writer" \/ Len(alerts) > 0) =>
       /\ Len(statusNet) >= 2
       /\ statusNet[1].method = "PATCH" /\ statusNet[1].status = "RUNNING"
       /\ statusNet[1].call = 0
       /\ statusNet[2].method = "POST" /\ statusNet[2].call = 0
  /\ \A i \in DOMAIN closeLog :
       AnnouncedPatch(closeLog[i].call, "COMPLETE") /\ AnnouncedPost(closeLog[i].call)
  /\ \A c \in 1..closesDone : \A s \in Sinks :
       SinkCloses(s, c) = IF sink[s] # "nil" THEN 1 ELSE 0

\* a Close has returned on a writer with an output and an error sink but no
\* trace sink
C8_Witness ==
  /\ closesDone = 1
  /\ sink["output"] = "closed" /\ sink["trace"] = "nil" /\ sink["error"] = "closed"

\* C9: the request log is a sequence of announcements, each a PATCH followed
\* by one webhook POST; the PATCH carries its state, and pid "15" exactly
\* for RUNNING; the POST carries the event and the reason of that state.
C9_AnnouncementShape ==
  \A i \in DOMAIN statusNet :
    IF i % 2 = 1
    THEN /\ statusNet[i].method = "PATCH"
         /\ statusNet[i].status = (IF statusNet[i].call = 0 THEN "RUNNING" ELSE "COMPLETE")
         /\ (statusNet[i].pid = "15") <=> (statusNet[i].status = "RUNNING")
    ELSE /\ statusNet[i].method = "POST"
         /\ statusNet[i].call = statusNet[i - 1].call
         /\ statusNet[i].event =
              (IF statusNet[i - 1].status = "RUNNING" THEN "scan.started" ELSE "scan.complete")
         /\ statusNet[i].reason =
              (IF statusNet[i - 1].status = "RUNNING" THEN "Scan Started successfully"
               ELSE "Scan Completed successfully")

\* how many requests of the given method Close call c sent
CloseRequests(method, c) ==
  Cardinality({i \in DOMAIN statusNet : statusNet[i].method = method /\ statusNet[i].call = c})

\* C10: every Close call that has returned, the second like the first, sent
\* its own COMPLETE PATCH and its own completion webhook POST and invoked
\* Close on every configured sink, closed already or not.
C10_CloseNotIdempotent ==
  \A c \in 1..closesDone :
    /\ CloseRequests("PATCH", c) = 1
    /\ CloseRequests("POST", c) = 1
    /\ AnnouncedPatch(c, "COMPLETE")
    /\ \A s \in Sinks : sink[s] # "nil" => SinkCloses(s, c) = 1

\* Close has returned twice on a writer with an output file
C10_Witness ==
  /\ closesDone = 2
  /\ sink["output"] = "closed"
  /\ SinkCloses("output", 1) = 1 /\ SinkCloses("output", 2) = 1

\* ------------------------------------------------------------- construction failures
\* NewStandardWriter has run
Constructed == mainPc # "start" \/ aborted # "no"
\* no request has left the process
NoNetworkCall == statusNet = <<>> /\ alerts = <<>>
\* construction returned the wrapped error and no writer, having announced nothing
ReturnedErrorOnly == ctorResult = "error" /\ aborted = "no" /\ NoNetworkCall
\* construction ended the process before any network call
TerminatedBeforeNetwork == aborted \in {"env", "fatal"} /\ ctorResult = "none" /\ NoNetworkCall

\* C11 as stated: once NewStandardWriter has run, an unopenable configured sink
\* path means it returned the wrapped error without a writer and without any
\* network call, and an absent environment input means it terminated the
\* process before any network call.
C11_OpenFailureReturnsEnvMissingTerminates ==
  Constructed =>
    /\ (\E s \in Sinks : ctorPaths[s] = "unopenable") => ReturnedErrorOnly
    /\ ctorEnvMissing # {} => TerminatedBeforeNetwork

\* C11 amended: an unopenable configured sink path always yields the wrapped
\* error, no writer and no network call; an absent environment input terminates
\* the process before any network call when every configured sink path opened
\* (the sinks are opened first, so an unopenable path wins).
C11_OpenFailureFirstThenEnvMissing ==
  Constructed =>
    /\ (\E s \in Sinks : ctorPaths[s] = "unopenable") => ReturnedErrorOnly
    /\ (ctorEnvMissing # {} /\ \A s \in Sinks : ctorPaths[s] # "unopenable")
         => TerminatedBeforeNetwork

\* construction was given an unopenable trace path together with an absent
\* environment input and returned the error
C11_Witness ==
  /\ ctorPaths["trace"] = "unopenable"
  /\ ctorPaths["output"] = "opens"
  /\ ctorEnvMissing = {"scanId"}
  /\ ctorResult = "error"

\* ------------------------------------------------------------- WriteFailure
\* the event of worker w's latest call was handed to WriteFailure
LastCallWasFailure(w) == wcalls[w] > 0 /\ FindingId(w, wcalls[w]) \in failureCalls
\* finding f has reached the lock, the webhook or the output file
Processed(f) ==
  \/ \E i \in DOMAIN lockLog : lockLog[i] = f
  \/ \E i \in DOMAIN alerts : alerts[i].fid = f
  \/ \E i \in DOMAIN appendLog : appendLog[i].fid = f

\* C12: with the matcher-status flag off a WriteFailure call has returned nil
\* and nothing of it reaches Write, the lock, the webhook or the output file;
\* with the flag on every WriteFailure call hands Write a finding whose matcher
\* status is false, and that finding is processed exactly like any other: once
\* the call returned it was alerted when (and only when) it rendered non-empty.
C12_WriteFailureGatedByFlag ==
  /\ ~matcherStatus =>
       /\ msFalse = {}
       /\ \A f \in failureCalls : ~Processed(f)
       /\ \A w \in Workers :
            LastCallWasFailure(w) => wpc[w] = "idle" /\ wret[w] = "nil"
  /\ matcherStatus =>
       /\ msFalse = failureCalls
       /\ AllReturned => Len(alerts) = TotalRendered
       /\ \A w \in Workers :
            (LastCallWasFailure(w) /\ wpc[w] = "idle") => wret[w] \in {"nil", "wrapped"}

\* with the flag off, one worker's WriteFailure returned while the other
\* worker's Write is sending its alert
C12_Witness ==
  /\ ~matcherStatus
  /\ \E w, v \in Workers :
       /\ LastCallWasFailure(w)
       /\ wret[w] = "nil"
       /\ wpc[v] = "append"
       /\ Len(alerts) = 1

\* ------------------------------------------------------------- Request log
\* the record the i-th Request call is to log: the root-cause message of its
\* error, or "none"
ExpectedRecord(i) ==
  [call |-> i,
   error |-> IF reqLog[i] = <<>> THEN "none" ELSE reqLog[i][Len(reqLog[i])]]
\* the calls among the first n whose error is not nil, in order
RECURSIVE FailedCalls(_)
FailedCalls(n) ==
  IF n = 0 THEN <<>>
  ELSE IF reqLog[n] # <<>> THEN Append(FailedCalls(n - 1), n) ELSE FailedCalls(n - 1)

\* C13: nothing is written when neither log sink is configured; a configured
\* trace sink has been handed exactly one record per Request call, a configured
\* error sink exactly the records of the calls whose error is not nil, and
\* each record's error is the root-cause message or "none".
C13_RequestLogsPerSink ==
  /\ traceLog = IF sink["trace"] # "nil"
                THEN [i \in 1..Len(reqLog) |-> ExpectedRecord(i)] ELSE <<>>
  /\ errorLog = IF sink["error"] # "nil"
                THEN [j \in 1..Len(FailedCalls(Len(reqLog))) |->
                        ExpectedRecord(FailedCalls(Len(reqLog))[j])]
                ELSE <<>>

\* both log sinks configured; a call without error and a call with a wrapped
\* error were logged: two trace records, one error record
C13_Witness ==
  /\ sink["trace"] # "nil" /\ sink["error"] # "nil"
  /\ Len(reqLog) = 2
  /\ reqLog[1] = <<>>
  /\ Len(reqLog[2]) = 2
  /\ Len(traceLog) = 2
  /\ Len(errorLog) = 1

\* ------------------------------------------------------------- sanitizeFileName is idempotent
\* C14: sanitizing a sanitized name changes nothing:
\* sanitizeFileName(sanitizeFileName(x)) = sanitizeFileName(x) for every x.
C14_SanitizeIdempotent ==
  fnPc = "out" => sanitizeFileName(fnOut, fnIn.windows) = fnOut

\* ------------------------------------------------------------- extractResponseData result
\* the value the last of the lines named n (in any letter case) gives
RECURSIVE LastValue(_, _)
LastValue(lines, n) ==
  IF ToLower(lines[Len(lines)].name) = n THEN lines[Len(lines)].value
  ELSE LastValue(SubSeq(lines, 1, Len(lines) - 1), n)

\* C15: for a response made of a valid status line and name: value lines
\* (empty values and a last line without line break included) the result is
\* exactly the version and the code of the status line, and a header map that
\* holds every name, lower-cased, with the value of its last line.
C15_ExtractExact ==
  fnPc = "out" =>
    /\ fnOut.version = fnIn.status.version
    /\ fnOut.code = Atoi(fnIn.status.code)
    /\ DOMAIN fnOut.headers = {ToLower(fnIn.lines[i].name) : i \in DOMAIN fnIn.lines}
    /\ \A n \in DOMAIN fnOut.headers : fnOut.headers[n] = LastValue(fnIn.lines, n)

\* ------------------------------------------------------------- no escape sequence persisted
\* C16: with JSON mode off the bytes handed to the output file contain no
\* ESC '[' (digits or ';')* letter, whatever the rendered bytes were.
C16_NoEscapeSequencePersisted ==
  (fnPc = "out" /\ ~fnIn.json) => \A i \in DOMAIN fnOut : MatchEnd(fnOut, i) = 0

\* ------------------------------------------------------------- wrapped event lock
\* thread t is between taking and releasing the lock of the wrapped event
Inside(t) == epc[t] \in {"access", "unlock"}
Mutating(t) == Inside(t) /\ eop[t] = "SetOperatorResult"
Querying(t) == Inside(t) /\ eop[t] \in Queries

\* C17: a SetOperatorResult call inside its locked section excludes every other
\* mutator and every query; a query that has read still holds the state it
\* read (nothing changed it meanwhile); and when no SetOperatorResult call is
\* between its assignment and its return, the field is the argument of the
\* call that returned last, so HasOperatorResult then answers true exactly when
\* that argument is non-nil.
C17_EventLockDiscipline ==
  /\ \A t \in Threads :
       Mutating(t) => \A u \in Threads \ {t} : ~Inside(u)
  /\ \A t \in Threads :
       (epc[t] = "unlock" /\ eop[t] = "HasOperatorResult")
         => eret[t] = (OperatorsResult # "nil")
  /\ \A t \in Threads :
       (epc[t] = "unlock" /\ eop[t] = "HasResults") => eret[t] = (Results > 0)
  /\ (\A t \in Threads : ~(epc[t] = "unlock" /\ eop[t] = "SetOperatorResult"))
       => OperatorsResult = lastSet

\* two queries hold the read lock together, one of them answering true after
\* SetOperatorResult("r1") returned, while a third thread waits to nil the field
C17_Witness ==
  /\ lastSet = "r1"
  /\ \E t, u, v \in Threads :
       /\ t # u
       /\ Querying(t) /\ Querying(u)
       /\ epc[t] = "unlock" /\ eop[t] = "HasOperatorResult" /\ eret[t]
       /\ epc[v] = "lock" /\ eop[v] = "SetOperatorResult" /\ earg[v] = "nil"

\* ------------------------------------------------------------- alerts in both modes
\* the Write calls that rendered non-empty and still wait for the mutex
WaitingForMutex == Cardinality({w \in Workers : wpc[w] = "lock"})
\* the appends that were carried out in full
DoneAppends == {i \in DOMAIN appendLog : appendLog[i].state = "done"}

C19_PendingWriteReturns ==
  \A w \in Workers : (wpc[w] = "lock") ~> (wpc[w] = "idle")

\* ------------------------------------------------------------- Close against Write
\* C20: Close is serialized with Write on the primary sink: no step closes the
\* primary output file while a Write call is inside its notify+persist
\* section, and once the file is closed no byte is appended to it.
C20_CloseSerializedWithWrite ==
  [][/\ (sink["output"] # "closed" /\ sink'["output"] = "closed")
          => \A w \in Workers : ~InCS(w)
     /\ sink["output"] = "closed" => outBytes' = outBytes]_vars
====
